---- MODULE Spec2Model ----
(***************************************************************************)
(* Model of the crawl core of app.py: crawl_page run by the workers of a   *)
(* ThreadPoolExecutor, and the coordinating loop that merges completed     *)
(* futures into visited_urls, pages_scanned, all_emails and seen_emails.   *)
(*                                                                         *)
(* A URL string "scheme://netloc/path" is held as the record of its        *)
(* urlparse components.  The web is the environment: the answer to a GET   *)
(* is chosen when a worker performs it and is remembered in web.           *)
(***************************************************************************)
EXTENDS Integers, Sequences, FiniteSets, TLC

(* ------------------------------ bounds --------------------------------- *)
\* max_pages is drawn from 1..MaxPagesBound, workers from 1..MaxWorkers
MaxPagesBound == 3
MaxWorkers == 2
\* a text is at most MaxTokens pieces of TOKENS long
MaxTokens == 4

(* --------------------------- URL strings -------------------------------- *)
U(s, n, p) == [scheme |-> s, netloc |-> n, path |-> p]

\* an href attribute, by its urlparse components; valid = FALSE is an href
\* on which urlparse raises ValueError (such as "http://[bad")
H(s, n, p, q, f, ok) ==
    [scheme |-> s, netloc |-> n, path |-> p, query |-> q, fragment |-> f, valid |-> ok]

\* paths that start with "/"
AbsPaths == {"/", "/p1", "/p2", "/p3", "/x"}

start_url == U("https", "a.com", "/")

\* urlparse(...).netloc
Netloc(url) == url.netloc

base_domain == Netloc(start_url)

\* urlparse(...).hostname: the netloc without its "user@" part
Host(url) == IF url.netloc = "x@a.com" THEN "a.com" ELSE url.netloc

HREFS ==
    { H("", "", "/p1", "", "", TRUE),                  \* /p1
      H("", "", "/p1", "x=1", "y", TRUE),              \* /p1?x=1#y
      H("", "", "/p2", "", "", TRUE),                  \* /p2
      H("", "", "/p3", "", "", TRUE),                  \* /p3
      H("", "", "/", "", "", TRUE),                    \* /
      H("https", "b.com", "/p1", "", "", TRUE),        \* https://b.com/p1
      H("file", "", "/x", "", "", TRUE),               \* file:///x
      H("mailto", "", "x@a.com", "", "", TRUE),        \* mailto:x@a.com
      H("http", "[bad", "", "", "", FALSE) }           \* http://[bad

\* urljoin(base, href) for a valid href: an href with its own scheme other
\* than the base's is returned as it is, an href with a netloc takes only the
\* scheme of the base, otherwise the netloc of the base is kept and the path
\* is the href's (the base's when the href has none)
urljoin(base, h) ==
    IF h.scheme # "" /\ h.scheme # base.scheme
      THEN [scheme |-> h.scheme, netloc |-> h.netloc, path |-> h.path,
            query |-> h.query, fragment |-> h.fragment]
    ELSE IF h.netloc # ""
      THEN [scheme |-> base.scheme, netloc |-> h.netloc, path |-> h.path,
            query |-> h.query, fragment |-> h.fragment]
    ELSE [scheme |-> base.scheme, netloc |-> base.netloc,
          path |-> IF h.path = "" THEN base.path ELSE h.path,
          query |-> h.query, fragment |-> h.fragment]

\* variant: the query string is kept in the link
clean_link_keeps_query(parsed) ==
    [scheme |-> parsed.scheme, netloc |-> parsed.netloc,
     path |-> IF parsed.query = "" THEN parsed.path
              ELSE parsed.path \o "?" \o parsed.query]

\* the string parsed.scheme + "://" + parsed.netloc + parsed.path, as the
\* components urlparse finds in it: with an empty netloc and a path that does
\* not start with "/", the path is read back as the netloc
clean_link(parsed) ==
    IF parsed.netloc = "" /\ parsed.path # "" /\ parsed.path \notin AbsPaths
      THEN U(parsed.scheme, parsed.path, "")
      ELSE U(parsed.scheme, parsed.netloc, parsed.path)

\* variant: every link counts as internal
is_internal_link_any(link, domain) == TRUE

is_internal_link(link, domain) ==
    Netloc(link) = "" \/ Netloc(link) = domain

(* ---------------------------- normalize_text ---------------------------- *)
\* a text is a sequence of characters
Lower(c) == IF c = "A" THEN "a" ELSE c

\* text.lower()
lower(t) == [i \in 1..Len(t) |-> Lower(t[i])]

\* \s
IsSpace(c) == c = " "

\* a pattern "\s* word \s*" or "\s+ word \s+" (min = 0 or 1) and its replacement
Pattern(min, word, repl) == [min |-> min, word |-> word, repl |-> repl]

OBFUSCATED_PATTERNS ==
    << Pattern(0, <<"[", "a", "t", "]">>, "@"),
       Pattern(0, <<"(", "a", "t", ")">>, "@"),
       Pattern(1, <<"a", "t">>, "@"),
       Pattern(0, <<"[", "d", "o", "t", "]">>, "."),
       Pattern(0, <<"(", "d", "o", "t", ")">>, "."),
       Pattern(1, <<"d", "o", "t">>, ".") >>

\* the number of whitespace characters of t from position i on
RECURSIVE Spaces(_, _)
Spaces(t, i) == IF i <= Len(t) /\ IsSpace(t[i]) THEN 1 + Spaces(t, i + 1) ELSE 0

\* where the match of p that starts at position i of t ends (the position
\* after it), 0 when p does not match there; whitespace is taken greedily and
\* letters are compared without case (re.IGNORECASE)
MatchEnd(p, t, i) ==
    LET w == Spaces(t, i)
        j == i + w
        k == j + Len(p.word)
        w2 == Spaces(t, k)
    IN IF /\ w >= p.min
          /\ k - 1 <= Len(t)
          /\ \A m \in 1..Len(p.word) : Lower(t[j + m - 1]) = p.word[m]
          /\ w2 >= p.min
         THEN k + w2 ELSE 0

RECURSIVE sub_from(_, _, _)
sub_from(p, t, i) ==
    IF i > Len(t) THEN <<>>
    ELSE IF MatchEnd(p, t, i) # 0
      THEN <<p.repl>> \o sub_from(p, t, MatchEnd(p, t, i))
      ELSE <<t[i]>> \o sub_from(p, t, i + 1)

\* variant: re.sub(..., count=1), only the leftmost match is replaced
re_sub_first_only(p, t) ==
    LET first == {i \in 1..Len(t) : MatchEnd(p, t, i) # 0 /\
                     \A h \in 1..(i - 1) : MatchEnd(p, t, h) = 0}
    IN IF first = {} THEN t
       ELSE LET i == CHOOSE x \in first : TRUE
            IN SubSeq(t, 1, i - 1) \o <<p.repl>> \o SubSeq(t, MatchEnd(p, t, i), Len(t))

\* re.sub(pattern, replacement, text, flags=re.IGNORECASE): every match, left
\* to right, without overlap
re_sub(p, t) == sub_from(p, t, 1)

RECURSIVE apply_patterns(_, _)
apply_patterns(ps, t) ==
    IF ps = <<>> THEN t ELSE apply_patterns(Tail(ps), re_sub(Head(ps), t))

normalize_text(t) == apply_patterns(OBFUSCATED_PATTERNS, lower(t))

\* the texts tried: up to MaxTokens pieces, each a word, an obfuscation or a
\* character
TOKENS ==
    { <<" ">>, <<"a", "t">>, <<"A", "t">>, <<"d", "o", "t">>,
      <<"[">>, <<"]">>, <<"(", "a", "t", ")">>, <<"(", "d", "o", "t", ")">>,
      <<".">> }

RECURSIVE Flatten(_)
Flatten(ts) == IF ts = <<>> THEN <<>> ELSE Head(ts) \o Flatten(Tail(ts))

TEXTS == UNION {{Flatten(ts) : ts \in [1..n -> TOKENS]} : n \in 0..MaxTokens}

(* ----------------------- the web (environment) -------------------------- *)
EMAILS == {"x@a.com", "y@a.com"}

\* soup.title is None / soup.title.string is None / a title with a string
NoTitleTag == "no title element"
NoTitleString == "title element without string"
TITLES == {NoTitleTag, NoTitleString, "Home"}

\* what session.get(url) gives: kind "error" is a raised exception (timeout,
\* connection or TLS error, unsupported scheme); otherwise a response with
\* status_code, url (after redirects), and the parsed document: its title,
\* the email-shaped matches of its normalized text in the iteration order of
\* the set extract_emails returns, and the href attributes of its anchors
Resp(kind, status, final, title, emails, hrefs) ==
    [kind |-> kind, status |-> status, url |-> final, title |-> title,
     emails |-> emails, hrefs |-> hrefs]

RedirectTarget == U("https", "b.com", "/")

\* the documents a server may answer with: title, emails, hrefs
Doc(title, emails, hrefs) == [title |-> title, emails |-> emails, hrefs |-> hrefs]

DOCS ==
    { Doc("Home", <<"x@a.com">>,
          {H("", "", "/p1", "", "", TRUE), H("", "", "/p2", "", "", TRUE)}),
      Doc("Home", <<"y@a.com">>, {}),
      Doc("Home", <<"y@a.com">>,
          {H("", "", "/p2", "", "", TRUE), H("", "", "/p3", "", "", TRUE)}),
      Doc(NoTitleTag, <<"x@a.com", "y@a.com">>,
          {H("", "", "/p1", "x=1", "y", TRUE), H("", "", "/", "", "", TRUE)}),
      Doc("Home", <<"y@a.com", "x@a.com">>,
          {H("", "", "/p2", "", "", TRUE), H("https", "b.com", "/p1", "", "", TRUE)}),
      Doc("Home", <<"x@a.com">>,
          {H("", "", "/p1", "", "", TRUE), H("http", "[bad", "", "", "", FALSE)}),
      Doc(NoTitleString, <<"x@a.com">>, {H("", "", "/p2", "", "", TRUE)}),
      Doc("Home", <<>>,
          {H("file", "", "/x", "", "", TRUE), H("mailto", "", "x@a.com", "", "", TRUE)}) }

\* the answers a GET of url can get; a URL whose scheme the HTTP client does
\* not support only raises
Responses(url) ==
    IF url.scheme \notin {"http", "https"}
      THEN {Resp("error", 0, url, NoTitleTag, <<>>, {})}
      ELSE {Resp("error", 0, url, NoTitleTag, <<>>, {}),
            Resp("http", 404, url, "Home", <<"x@a.com">>, {H("", "", "/p2", "", "", TRUE)}),
            Resp("http", 200, RedirectTarget, "Home", <<"y@a.com">>,
                 {H("", "", "/p1", "", "", TRUE)})}
           \cup {Resp("http", 200, url, d.title, d.emails, d.hrefs) : d \in DOCS}

NotFetched == Resp("none", 0, start_url, NoTitleTag, <<>>, {})

(* ----------------------------- crawl_page ------------------------------- *)
Outcome(data, links) == [data |-> data, links |-> links]

Failure == Outcome(<<>>, {})

Record(email, url, title) == [Email |-> email, PageURL |-> url, PageTitle |-> title]

\* variant: the status code is not looked at
crawl_page_ignores_status(url, resp) ==
    IF resp.kind = "error" THEN [data |-> <<>>, links |-> {}]
    ELSE IF resp.title = NoTitleString THEN [data |-> <<>>, links |-> {}]
    ELSE IF \E h \in resp.hrefs : ~h.valid THEN [data |-> <<>>, links |-> {}]
    ELSE [data |-> [i \in 1..Len(resp.emails) |->
                      [Email |-> resp.emails[i], PageURL |-> resp.url,
                       PageTitle |-> IF resp.title = NoTitleTag THEN "N/A" ELSE resp.title]],
          links |-> {clean_link(urljoin(resp.url, h)) : h \in resp.hrefs}]

\* the try block of crawl_page: any exception inside it (raised by the GET,
\* by soup.title.string.strip() on a title without string, or by urljoin on
\* an href it cannot parse) gives the same result as a status other than 200
crawl_page(url, resp) ==
    IF resp.kind = "error" THEN Failure
    ELSE IF resp.status # 200 THEN Failure
    ELSE IF resp.title = NoTitleString THEN Failure
    ELSE IF \E h \in resp.hrefs : ~h.valid THEN Failure
    ELSE LET final_url == resp.url
             title == IF resp.title = NoTitleTag THEN "N/A" ELSE resp.title
         IN Outcome([i \in 1..Len(resp.emails) |->
                        Record(resp.emails[i], final_url, title)],
                    {clean_link(urljoin(final_url, h)) : h \in resp.hrefs})

(* ------------------------------- state ---------------------------------- *)
VARIABLES
    max_pages,          \* st.slider("Max Pages")
    workers,            \* st.slider("Speed (Threads)")
    remove_duplicates,  \* st.checkbox("Remove Duplicate Emails")
    visited_urls,       \* set of URL strings
    all_emails,         \* list of records
    seen_emails,        \* set of email strings
    pages_scanned,
    future_to_url,      \* dict: future -> URL, futures named by submission number
    futures,            \* per submitted future: its state and its result
    submitted,          \* every executor.submit so far: the URL, in order
    done,               \* futures of the current "for future in done" still to process
    pc,                 \* position of the coordinating loop
    processed,          \* the futures the for loop has processed, in order
    web,                \* the answer each fetched URL gave
    text,               \* a page text handed to normalize_text
    norm_log            \* the results of normalize_text applied to text, then to its result

vars == <<max_pages, workers, remove_duplicates, visited_urls, all_emails,
          seen_emails, pages_scanned, future_to_url, futures, submitted,
          done, pc, processed, web, text, norm_log>>

\* the variables of the text functions, which the crawl loop does not touch
texts == <<text, norm_log>>

config == <<max_pages, workers, remove_duplicates>>

Future(state, result) == [state |-> state, result |-> result]

\* the URLs a crawl from start_url can name
URLS == {start_url, RedirectTarget}
        \cup {clean_link(urljoin(b, h)) :
                b \in {start_url, RedirectTarget}, h \in {x \in HREFS : x.valid}}

Init ==
    /\ max_pages \in 1..MaxPagesBound
    /\ workers = MaxWorkers
    /\ remove_duplicates \in BOOLEAN
    /\ visited_urls = {start_url}
    /\ all_emails = <<>>
    /\ seen_emails = {}
    /\ pages_scanned = 0
    /\ submitted = <<start_url>>
    /\ futures = <<Future("PENDING", Failure)>>
    /\ future_to_url = (1 :> start_url)
    /\ done = {}
    /\ pc = "wait"
    /\ processed = <<>>
    /\ web = [u \in URLS |-> NotFetched]
    /\ text = <<>>
    /\ norm_log = <<>>

(* ------------------------------ workers --------------------------------- *)
Running == {f \in 1..Len(futures) : futures[f].state = "RUNNING"}

\* a pool thread takes the next work item off the executor's queue
WorkerStart(f) ==
    /\ futures[f].state = "PENDING"
    /\ Cardinality(Running) < workers
    /\ \A g \in 1..(f - 1) : futures[g].state # "PENDING"
    /\ futures' = [futures EXCEPT ![f].state = "RUNNING"]
    /\ UNCHANGED <<config, texts, visited_urls, all_emails, seen_emails, pages_scanned,
                   future_to_url, submitted, done, pc, processed, web>>

\* variant: the thread also appends what it found to all_emails
WorkerFinish_appends(f, resp) ==
    /\ futures[f].state = "RUNNING"
    /\ futures' = [futures EXCEPT ![f] = Future("FINISHED", crawl_page(submitted[f], resp))]
    /\ web' = [web EXCEPT ![submitted[f]] = resp]
    /\ all_emails' = all_emails \o crawl_page(submitted[f], resp).data
    /\ UNCHANGED <<config, texts, visited_urls, seen_emails, pages_scanned,
                   future_to_url, submitted, done, pc, processed>>

\* the thread runs crawl_page(url, session, timeout) and sets the result
WorkerFinish(f, resp) ==
    /\ futures[f].state = "RUNNING"
    /\ futures' = [futures EXCEPT ![f] = Future("FINISHED", crawl_page(submitted[f], resp))]
    /\ web' = [web EXCEPT ![submitted[f]] = resp]
    /\ UNCHANGED <<config, texts, visited_urls, all_emails, seen_emails, pages_scanned,
                   future_to_url, submitted, done, pc, processed>>

(* ------------------------- coordinating loop ---------------------------- *)
IsDone(f) == futures[f].state \in {"FINISHED", "CANCELLED"}

\* while future_to_url and pages_scanned < max_pages: wait(FIRST_COMPLETED)
Wait ==
    /\ pc = "wait"
    /\ future_to_url # << >>
    /\ pages_scanned < max_pages
    /\ \E f \in DOMAIN future_to_url : IsDone(f)
    /\ done' = {f \in DOMAIN future_to_url : IsDone(f)}
    /\ pc' = "for"
    /\ UNCHANGED <<config, texts, visited_urls, all_emails, seen_emails, pages_scanned,
                   future_to_url, futures, submitted, processed, web>>

\* variant: the loop tests only pages_scanned < max_pages
LoopExit_frontier_untested ==
    /\ pc = "wait"
    /\ ~(pages_scanned < max_pages)
    /\ pc' = "shutdown"
    /\ UNCHANGED <<config, texts, visited_urls, all_emails, seen_emails, pages_scanned,
                   future_to_url, futures, submitted, done, processed, web>>

\* the while condition is false
LoopExit ==
    /\ pc = "wait"
    /\ ~(future_to_url # << >> /\ pages_scanned < max_pages)
    /\ pc' = "shutdown"
    /\ UNCHANGED <<config, texts, visited_urls, all_emails, seen_emails, pages_scanned,
                   future_to_url, futures, submitted, done, processed, web>>

\* the orders in which a set can be iterated
Orders(S) ==
    {o \in [1..Cardinality(S) -> S] : \A i, j \in 1..Cardinality(S) : o[i] = o[j] => i = j}

\* variant: the future is looked up and left in the dict
Pop_keeps(d, k) == d

\* future_to_url.pop(future): the dict without the key
Pop(d, k) == [x \in DOMAIN d \ {k} |-> d[x]]

\* variant: an email seen before takes the record of the later page
RECURSIVE add_unseen_last_wins(_, _, _)
add_unseen_last_wins(data, emails, seen) ==
    IF data = <<>> THEN [all |-> emails, seen |-> seen]
    ELSE IF Head(data).Email \notin seen
      THEN add_unseen_last_wins(Tail(data), Append(emails, Head(data)),
                                seen \cup {Head(data).Email})
      ELSE add_unseen_last_wins(Tail(data),
                                [k \in 1..Len(emails) |->
                                    IF emails[k].Email = Head(data).Email
                                      THEN Head(data) ELSE emails[k]],
                                seen)

\* variant: seen_emails.add(email) is missing
RECURSIVE add_unseen_never_marks(_, _, _)
add_unseen_never_marks(data, emails, seen) ==
    IF data = <<>> THEN [all |-> emails, seen |-> seen]
    ELSE IF Head(data).Email \notin seen
      THEN add_unseen_never_marks(Tail(data), Append(emails, Head(data)), seen)
      ELSE add_unseen_never_marks(Tail(data), emails, seen)

\* if remove_duplicates: append the items whose email is not in seen_emails
RECURSIVE add_unseen(_, _, _)
add_unseen(data, emails, seen) ==
    IF data = <<>> THEN [all |-> emails, seen |-> seen]
    ELSE IF Head(data).Email \notin seen
      THEN add_unseen(Tail(data), Append(emails, Head(data)), seen \cup {Head(data).Email})
      ELSE add_unseen(Tail(data), emails, seen)

\* else: all_emails.extend(data)
add_all(data, emails, seen) == [all |-> emails \o data, seen |-> seen]

\* variant: the checkbox is ignored and duplicates are always removed
aggregate_always_dedup(data, emails, seen) == add_unseen(data, emails, seen)

\* variant: the checkbox is ignored and every item is appended
aggregate_no_dedup(data, emails, seen) == add_all(data, emails, seen)

aggregate(data, emails, seen) ==
    IF remove_duplicates THEN add_unseen(data, emails, seen)
                         ELSE add_all(data, emails, seen)

\* variant: the visited test is missing
admit_unvisited_forgotten(link, visited) == is_internal_link(link, base_domain)

\* the test that lets a link become a job
admit(link, visited) == is_internal_link(link, base_domain) /\ link \notin visited

\* variant: the break after a submission is missing
RECURSIVE queue_links_no_break(_, _)
queue_links_no_break(links, st) ==
    IF links = <<>> THEN st
    ELSE IF admit(Head(links), st.visited)
      THEN queue_links_no_break(Tail(links),
               [visited |-> st.visited \cup {Head(links)},
                submitted |-> Append(st.submitted, Head(links)),
                futures |-> Append(st.futures, Future("PENDING", Failure)),
                f2u |-> st.f2u @@ ((Len(st.submitted) + 1) :> Head(links))])
      ELSE queue_links_no_break(Tail(links), st)

\* for link in links: ... submit ... if len(visited_urls) >= max_pages: break
RECURSIVE queue_links(_, _)
queue_links(links, st) ==
    IF links = <<>> THEN st
    ELSE IF admit(Head(links), st.visited)
      THEN LET new_future == Len(st.submitted) + 1
               st2 == [visited |-> st.visited \cup {Head(links)},
                       submitted |-> Append(st.submitted, Head(links)),
                       futures |-> Append(st.futures, Future("PENDING", Failure)),
                       f2u |-> st.f2u @@ (new_future :> Head(links))]
           IN IF Cardinality(st2.visited) >= max_pages
                THEN st2
                ELSE queue_links(Tail(links), st2)
      ELSE queue_links(Tail(links), st)

\* variant: <= in place of <
may_queue_off_by_one(scanned, inflight) == scanned + inflight <= max_pages

\* if pages_scanned + len(future_to_url) < max_pages
may_queue(scanned, inflight) == scanned + inflight < max_pages

\* variant: only a page that gave something is counted
count_page_if_any(scanned, result) ==
    IF result.data = <<>> /\ result.links = {} THEN scanned ELSE scanned + 1

\* pages_scanned += 1
count_page(scanned, result) == scanned + 1

\* one iteration of "for future in done"
Process(f) ==
    /\ pc = "for"
    /\ f \in done
    /\ LET popped == Pop(future_to_url, f)
           result == futures[f].result
           scanned == count_page(pages_scanned, result)
           agg == aggregate(result.data, all_emails, seen_emails)
           st == [visited |-> visited_urls, submitted |-> submitted,
                  futures |-> futures, f2u |-> popped]
       IN /\ pages_scanned' = scanned
          /\ all_emails' = agg.all
          /\ seen_emails' = agg.seen
          /\ \E order \in Orders(result.links) :
               LET q == IF may_queue(scanned, Cardinality(DOMAIN popped))
                          THEN queue_links(order, st) ELSE st
               IN /\ visited_urls' = q.visited
                  /\ submitted' = q.submitted
                  /\ futures' = q.futures
                  /\ future_to_url' = q.f2u
    /\ done' = done \ {f}
    /\ processed' = Append(processed, f)
    /\ UNCHANGED <<config, texts, pc, web>>

\* variant: the loop is left one page early
EndBatch_one_early ==
    /\ pc = "for"
    /\ done = {}
    /\ IF pages_scanned + 1 >= max_pages
         THEN /\ futures' = [f \in DOMAIN futures |->
                               IF f \in DOMAIN future_to_url /\ futures[f].state = "PENDING"
                                 THEN Future("CANCELLED", futures[f].result)
                                 ELSE futures[f]]
              /\ pc' = "shutdown"
         ELSE /\ futures' = futures
              /\ pc' = "wait"
    /\ UNCHANGED <<config, texts, visited_urls, all_emails, seen_emails, pages_scanned,
                   future_to_url, submitted, done, processed, web>>

\* after the for loop: if pages_scanned >= max_pages: cancel all and break
EndBatch ==
    /\ pc = "for"
    /\ done = {}
    /\ IF pages_scanned >= max_pages
         THEN /\ futures' = [f \in DOMAIN futures |->
                               IF f \in DOMAIN future_to_url /\ futures[f].state = "PENDING"
                                 THEN Future("CANCELLED", futures[f].result)
                                 ELSE futures[f]]
              /\ pc' = "shutdown"
         ELSE /\ futures' = futures
              /\ pc' = "wait"
    /\ UNCHANGED <<config, texts, visited_urls, all_emails, seen_emails, pages_scanned,
                   future_to_url, submitted, done, processed, web>>

\* leaving the with block: executor.shutdown(wait=True) returns when no work
\* item is queued or running; then "Finished! Scanned ..." is shown
Shutdown ==
    /\ pc = "shutdown"
    /\ \A f \in DOMAIN futures : futures[f].state \notin {"PENDING", "RUNNING"}
    /\ pc' = "finished"
    /\ UNCHANGED <<config, texts, visited_urls, all_emails, seen_emails, pages_scanned,
                   future_to_url, futures, submitted, done, processed, web>>

Next ==
    \/ \E f \in DOMAIN futures : WorkerStart(f)
    \/ \E f \in DOMAIN futures : \E resp \in Responses(submitted[f]) : WorkerFinish(f, resp)
    \/ Wait
    \/ \E f \in done : Process(f)
    \/ EndBatch
    \/ LoopExit
    \/ Shutdown

Spec == Init /\ [][Next]_vars

\* the pool threads run every work item they are given to its end, and the
\* coordinating loop runs whenever it is not blocked in wait
Workers ==
    \/ \E f \in DOMAIN futures : WorkerStart(f)
    \/ \E f \in DOMAIN futures : \E resp \in Responses(submitted[f]) : WorkerFinish(f, resp)

Coordinator ==
    \/ Wait
    \/ \E f \in done : Process(f)
    \/ EndBatch
    \/ LoopExit
    \/ Shutdown

FairSpec == Spec /\ WF_vars(Workers) /\ WF_vars(Coordinator)

(* --------------------- the text functions on their own ------------------ *)
\* no crawl is running; a text is given
TextInit ==
    /\ text \in TEXTS
    /\ norm_log = <<>>
    /\ max_pages = 1
    /\ workers = 1
    /\ remove_duplicates = TRUE
    /\ visited_urls = {}
    /\ all_emails = <<>>
    /\ seen_emails = {}
    /\ pages_scanned = 0
    /\ submitted = <<>>
    /\ futures = <<>>
    /\ future_to_url = <<>>
    /\ done = {}
    /\ pc = "idle"
    /\ processed = <<>>
    /\ web = [u \in URLS |-> NotFetched]

\* normalize_text applied to the text, then once more to its result
Normalize ==
    /\ Len(norm_log) < 2
    /\ norm_log' = Append(norm_log,
                          normalize_text(IF norm_log = <<>> THEN text
                                         ELSE norm_log[Len(norm_log)]))
    /\ UNCHANGED <<config, text, visited_urls, all_emails, seen_emails, pages_scanned,
                   future_to_url, futures, submitted, done, pc, processed, web>>

TextNext == Normalize

TextSpec == TextInit /\ [][TextNext]_vars

(* ------------------------- derived notions ------------------------------ *)
Fetched(u) == web[u].kind # "none"

\* the futures processed so far and the URLs they fetched
ProcessedSet == {processed[i] : i \in 1..Len(processed)}
ProcessedURLs == {submitted[f] : f \in ProcessedSet}

\* what crawl_page returned for a processed URL
ResultOf(u) == crawl_page(u, web[u])

EmailsOf(data) == {data[i].Email : i \in 1..Len(data)}

InternalHost(u) == Host(u) = "" \/ Host(u) = Host(start_url)

(* ------------------------------ C1 -------------------------------------- *)
\* C1: in every reachable state pages_scanned is at most max_pages, whatever
\* the pages answer and however many completed futures one batch holds.
C1_Budget == pages_scanned <= max_pages

\* a batch of two completed futures that takes pages_scanned to max_pages
C1_Witness ==
    /\ pc = "for"
    /\ Cardinality(done) = 2
    /\ pages_scanned + 2 = max_pages

(* ------------------------------ C2 -------------------------------------- *)
NoDoubleSubmit ==
    \A i, j \in 1..Len(submitted) : submitted[i] = submitted[j] => i = j

\* C2: no URL string is submitted to the pool twice, also when several pages
\* link to it and when its fetch failed, and visited_urls never loses an
\* element.
C2_Visited == []NoDoubleSubmit /\ [][visited_urls \subseteq visited_urls']_vars

\* two processed pages link to the same submitted URL, whose fetch failed
C2_Witness ==
    /\ pc = "finished"
    /\ \E u, v \in ProcessedURLs : \E w \in ProcessedURLs :
         /\ u # v
         /\ w \in ResultOf(u).links \cap ResultOf(v).links
         /\ web[w].kind = "error"

(* ------------------------------ C3 -------------------------------------- *)
\* C3: with remove_duplicates set, no two records of all_emails have the same
\* email, in every reachable state.
C3_Dedup ==
    remove_duplicates =>
        \A i, j \in 1..Len(all_emails) :
            all_emails[i].Email = all_emails[j].Email => i = j

\* two processed pages carried the same email and dedup is on
C3_Witness ==
    /\ remove_duplicates
    /\ \E u, v \in ProcessedURLs :
         /\ u # v
         /\ EmailsOf(ResultOf(u).data) \cap EmailsOf(ResultOf(v).data) # {}

(* ------------------------------ C4 -------------------------------------- *)
\* C4: every submitted URL but the seed, and every element of visited_urls but
\* the seed, has a host that is empty or equal to the host of start_url.
C4_InternalOnly ==
    /\ \A i \in 2..Len(submitted) : InternalHost(submitted[i])
    /\ \A u \in visited_urls \ {start_url} : InternalHost(u)

\* a processed page had a link to another host while the budget was open,
\* and another of its links was submitted
C4_Witness ==
    /\ pc = "finished"
    /\ Cardinality(visited_urls) < max_pages
    /\ \E u \in ProcessedURLs :
         /\ \E l \in ResultOf(u).links : ~InternalHost(l)
         /\ \E l \in ResultOf(u).links : l \in visited_urls \ {start_url}

(* ------------------------------ C5 -------------------------------------- *)
\* C5: with max_pages = 1 only the seed is ever submitted, nothing else joins
\* visited_urls, and the crawl ends with pages_scanned = 1.
C5_SinglePage ==
    max_pages = 1 =>
        /\ submitted = <<start_url>>
        /\ visited_urls = {start_url}
        /\ pages_scanned <= 1
        /\ Len(processed) <= 1
        /\ pc = "finished" => pages_scanned = 1

\* max_pages = 1 and the seed page, fetched with success, had an internal link
\* that is not the seed
C5_Witness ==
    /\ max_pages = 1
    /\ pc = "finished"
    /\ \E l \in ResultOf(start_url).links :
         is_internal_link(l, base_domain) /\ l # start_url

(* ------------------------------ C6 -------------------------------------- *)
\* C6: when every fetch handed to the pool completes, with success or with
\* failure, the crawl reaches Finished.
C6_Termination == <>(pc = "finished")

\* a finished crawl of at least two pages in which a fetch raised
C6_Witness ==
    /\ pc = "finished"
    /\ Len(processed) >= 2
    /\ \E u \in ProcessedURLs : web[u].kind = "error"

(* ------------------------------ C7 -------------------------------------- *)
\* a page counts as successfully fetched when the GET returned status 200 and
\* the document was read; an href that cannot be parsed is a failure of that
\* link only
SuccessfullyFetched(u) ==
    web[u].kind = "http" /\ web[u].status = 200 /\ web[u].title # NoTitleString

InternalLinksOf(u) ==
    {l \in {clean_link(urljoin(web[u].url, h)) : h \in {x \in web[u].hrefs : x.valid}} :
        is_internal_link(l, base_domain)}

RECURSIVE ReachFrom(_)
ReachFrom(R) ==
    LET N == R \cup UNION {InternalLinksOf(u) : u \in {r \in R : SuccessfullyFetched(r)}}
    IN IF N = R THEN R ELSE ReachFrom(N)

Reachable == ReachFrom({start_url})

RangeOf(seq) == {seq[i] : i \in 1..Len(seq)}

\* C7: when at most max_pages URLs are reachable from the seed through the
\* internal links of successfully fetched pages, the crawl ends with
\* pages_scanned equal to their number and, with dedup on, with exactly the
\* emails of the successfully fetched reachable pages.
C7_CompleteCrawl ==
    (pc = "finished" /\ Cardinality(Reachable) <= max_pages) =>
        /\ pages_scanned = Cardinality(Reachable)
        /\ remove_duplicates =>
             EmailsOf(all_emails) =
                 UNION {RangeOf(web[u].emails) :
                          u \in {r \in Reachable : SuccessfullyFetched(r)}}

(* ------------------------------ C8 -------------------------------------- *)
DataOf(f) == futures[f].result.data

\* position in processed of the first page whose data has the email
FirstPage(email) ==
    CHOOSE i \in 1..Len(processed) :
        /\ email \in EmailsOf(DataOf(processed[i]))
        /\ \A j \in 1..(i - 1) : email \notin EmailsOf(DataOf(processed[j]))

Attributed ==
    remove_duplicates =>
        \A k \in 1..Len(all_emails) :
            /\ \E i \in 1..Len(processed) :
                 all_emails[k].Email \in EmailsOf(DataOf(processed[i]))
            /\ all_emails[k] \in RangeOf(DataOf(processed[FirstPage(all_emails[k].Email)]))

IsPrefix(s, t) == Len(s) <= Len(t) /\ \A i \in 1..Len(s) : s[i] = t[i]

\* C8: with dedup on, the record kept for an email is the one of the first
\* page, in the order the loop processed completions, that had the email, and
\* no later page replaces a record.
C8_Attribution ==
    []Attributed /\ [][remove_duplicates => IsPrefix(all_emails, all_emails')]_vars

\* dedup on, and two processed pages gave different records for one email
C8_Witness ==
    /\ remove_duplicates
    /\ \E i, j \in 1..Len(processed) :
         /\ i < j
         /\ \E r \in RangeOf(DataOf(processed[i])) : \E q \in RangeOf(DataOf(processed[j])) :
              r.Email = q.Email /\ r # q

(* ------------------------------ C9 -------------------------------------- *)
RECURSIVE SumLen(_)
SumLen(fs) == IF fs = <<>> THEN 0 ELSE Len(DataOf(Head(fs))) + SumLen(Tail(fs))

PagesWith(email) ==
    {i \in 1..Len(processed) : email \in EmailsOf(DataOf(processed[i]))}

RecordsWith(email) == {k \in 1..Len(all_emails) : all_emails[k].Email = email}

\* C9: with dedup off, all_emails holds every record of every processed
\* page: its length is the sum of the pages' record counts, and an email of
\* k processed pages has k records, one for each of those pages.
C9_KeepAll ==
    ~remove_duplicates =>
        /\ Len(all_emails) = SumLen(processed)
        /\ \A e \in EMAILS :
             /\ Cardinality(RecordsWith(e)) = Cardinality(PagesWith(e))
             /\ \A i \in PagesWith(e) :
                  \A r \in RangeOf(DataOf(processed[i])) : r \in RangeOf(all_emails)

\* dedup off, and one email came from two processed pages
C9_Witness ==
    /\ ~remove_duplicates
    /\ pc = "finished"
    /\ \E e \in EMAILS : Cardinality(PagesWith(e)) >= 2

(* ------------------------------ C10 ------------------------------------- *)
\* C10: a page fetched with status 200 that has an href that cannot be parsed
\* still gives its email records and its other links.
C10_MalformedLinkIsolated ==
    \A f \in DOMAIN futures :
        LET resp == web[submitted[f]] IN
        (/\ futures[f].state = "FINISHED"
         /\ SuccessfullyFetched(submitted[f])
         /\ \E h \in resp.hrefs : ~h.valid)
        => /\ EmailsOf(DataOf(f)) = RangeOf(resp.emails)
           /\ futures[f].result.links =
                {clean_link(urljoin(resp.url, h)) : h \in {x \in resp.hrefs : x.valid}}

(* ------------------------------ C11 ------------------------------------- *)
\* C11: normalize_text(normalize_text(t)) = normalize_text(t) for every text t
\* over the letters, whitespace, brackets, "@" and ".".
C11_Idempotent == Len(norm_log) = 2 => norm_log[2] = norm_log[1]

\* a text with two obfuscations next to each other, rewritten, then
\* normalized again
C11_Witness ==
    /\ Len(norm_log) = 2
    /\ norm_log[1] # lower(text)
    /\ \E i \in 1..(Len(norm_log[1]) - 1) :
         norm_log[1][i] \in {"@", "."} /\ norm_log[1][i + 1] \in {"@", "."}

(* ------------------------------ C12 ------------------------------------- *)
\* two hrefs that differ at most in query string and fragment
SameButQuery(h1, h2) ==
    /\ h1.valid /\ h2.valid
    /\ h1.scheme = h2.scheme /\ h1.netloc = h2.netloc /\ h1.path = h2.path

\* the final URLs of the pages processed so far, with the two the model starts from
BasesSeen == {start_url, RedirectTarget} \cup {web[u].url : u \in ProcessedURLs}

\* C12: hrefs that differ only in query string and fragment resolve, against
\* any base, to the same link, and that link is submitted at most once.
C12_Canonical ==
    \A b \in BasesSeen : \A h1, h2 \in HREFS :
        SameButQuery(h1, h2) =>
            /\ clean_link(urljoin(b, h1)) = clean_link(urljoin(b, h2))
            /\ Cardinality({i \in 1..Len(submitted) :
                              submitted[i] \in {clean_link(urljoin(b, h1)),
                                                clean_link(urljoin(b, h2))}}) <= 1

\* two processed pages named the same path, one with and one without a query
\* string and fragment, and the link is a job
C12_Witness ==
    \E u, v \in ProcessedURLs : \E h1 \in web[u].hrefs : \E h2 \in web[v].hrefs :
        /\ u # v
        /\ clean_link(urljoin(web[u].url, h1)) = clean_link(urljoin(web[v].url, h2))
        /\ crawl_page(u, web[u]).links # {} /\ crawl_page(v, web[v]).links # {}
        /\ SameButQuery(h1, h2) /\ h1 # h2
        /\ \E i \in 2..Len(submitted) : submitted[i] = clean_link(urljoin(web[u].url, h1))

(* ------------------------------ C13 ------------------------------------- *)
\* C13: pages_scanned never decreases, grows by exactly 1 with each processed
\* completion, successful or not, and always equals the number of processed
\* completions.
C13_CountsCompletions ==
    /\ [](pages_scanned = Len(processed))
    /\ [][/\ pages_scanned' \in {pages_scanned, pages_scanned + 1}
          /\ (pages_scanned' = pages_scanned + 1) <=> (processed' # processed)]_vars

\* a failed and a successful completion have both been counted
C13_Witness ==
    /\ pages_scanned = 2
    /\ \E i, j \in 1..Len(processed) :
         /\ futures[processed[i]].result = Failure
         /\ web[submitted[processed[i]]].kind = "error"
         /\ DataOf(processed[j]) # <<>>

(* ------------------------------ C14 ------------------------------------- *)
\* the GET of u raised, returned a status other than 200, or its document
\* could not be read
FailedFetch(u) ==
    \/ web[u].kind = "error"
    \/ web[u].kind = "http" /\ web[u].status # 200
    \/ web[u].kind = "http" /\ web[u].title = NoTitleString

\* C14: processing the completion of a failed job adds 1 to pages_scanned and
\* takes the job out of future_to_url, and leaves all_emails, seen_emails and
\* visited_urls as they are and submits nothing.
C14_FailureFrame ==
    [][\A f \in DOMAIN futures :
         (processed' = Append(processed, f) /\ FailedFetch(submitted[f])) =>
            /\ pages_scanned' = pages_scanned + 1
            /\ DOMAIN future_to_url' = DOMAIN future_to_url \ {f}
            /\ UNCHANGED <<all_emails, seen_emails, visited_urls, submitted>>]_vars

\* a 404 answer whose body has an email and a link has been processed while
\* the budget still had room
C14_Witness ==
    /\ Len(processed) >= 2
    /\ Cardinality(visited_urls) < max_pages
    /\ \E i \in 2..Len(processed) :
         /\ web[submitted[processed[i]]].status = 404
         /\ web[submitted[processed[i]]].emails # <<>>

(* ------------------------------ C15 ------------------------------------- *)
\* C15: once the loop has been left, no step, a fetch completion included,
\* changes all_emails, seen_emails, visited_urls or pages_scanned.
C15_Discard ==
    [][(pc \in {"shutdown", "finished"}) =>
          (UNCHANGED <<all_emails, seen_emails, visited_urls, pages_scanned>>)]_vars

\* when the loop has been left every job has completed and been popped: no
\* fetch is left to complete after the exit
C15_NothingLeftToRun ==
    pc \in {"shutdown", "finished"} =>
        /\ future_to_url = << >>
        /\ \A f \in DOMAIN futures : futures[f].state = "FINISHED"

(* ------------------------------ C16 ------------------------------------- *)
\* the internal links of processed pages that never became a job
CutLinks ==
    {l \in UNION {ResultOf(u).links : u \in ProcessedURLs} :
        is_internal_link(l, base_domain) /\ l \notin visited_urls}

shared == <<visited_urls, pages_scanned, future_to_url, all_emails, seen_emails>>

\* a pool thread took a job or set a job's result
WorkerStep ==
    \E f \in DOMAIN futures :
        /\ futures'[f].state # futures[f].state
        /\ futures'[f].state \in {"RUNNING", "FINISHED"}

\* C17: a step of a worker leaves visited_urls, pages_scanned, future_to_url,
\* all_emails and seen_emails unchanged, and these change only in the loop's
\* processing of a completed job.
C17_SingleWriter ==
    [][/\ WorkerStep => (UNCHANGED shared)
       /\ (shared' # shared) =>
             (pc = "for" /\ \E f \in done : processed' = Append(processed, f))]_vars

\* while the loop is in the middle of a batch, a worker has set the result of
\* another job, and the result carries emails
C17_Witness ==
    /\ pc = "for"
    /\ done # {}
    /\ \E f \in DOMAIN future_to_url \ done :
         /\ futures[f].state = "FINISHED"
         /\ futures[f].result.data # <<>>
    /\ Len(processed) >= 1

(* ------------------------------ C18 ------------------------------------- *)
\* C18: with remove_duplicates set, in every reachable state seen_emails is
\* exactly the set of the emails of the records in all_emails.
C18_SeenIsResult ==
    remove_duplicates => seen_emails = EmailsOf(all_emails)

\* dedup is on, a page's email was appended and marked, and a later page that
\* carried a marked email has been processed
C18_Witness ==
    /\ remove_duplicates
    /\ seen_emails # {}
    /\ \E i, j \in 1..Len(processed) :
         /\ i < j
         /\ DataOf(processed[i]) # <<>>
         /\ EmailsOf(DataOf(processed[j])) \cap EmailsOf(DataOf(processed[i])) # {}

(* ------------------------------ C19 ------------------------------------- *)
\* C19: when the crawl is finished no job is queued, running or kept in
\* future_to_url, and either pages_scanned >= max_pages or every submitted
\* job has completed and been processed.
C19_Drained ==
    pc = "finished" =>
        /\ future_to_url = << >>
        /\ \A f \in DOMAIN futures : futures[f].state \notin {"PENDING", "RUNNING"}
        /\ \/ pages_scanned >= max_pages
           \/ /\ ProcessedSet = DOMAIN futures
              /\ \A f \in DOMAIN futures : futures[f].state = "FINISHED"

\* a crawl of two pages or more finished with budget left: the frontier ran dry
C19_Witness ==
    /\ pc = "finished"
    /\ pages_scanned < max_pages
    /\ Len(processed) >= 2

(* ------------------------------ C20 ------------------------------------- *)
\* the URLs of the jobs the loop still waits for
InFlightURLs == {future_to_url[f] : f \in DOMAIN future_to_url}

\* C20: between two processing steps pages_scanned plus the number of jobs in
\* future_to_url equals the size of visited_urls: every visited URL is either
\* in flight or counted as scanned, never both, and nothing else is.
C20_Accounting ==
    /\ pages_scanned + Cardinality(DOMAIN future_to_url) = Cardinality(visited_urls)
    /\ visited_urls = InFlightURLs \cup ProcessedURLs
    /\ InFlightURLs \cap ProcessedURLs = {}
    /\ Cardinality(ProcessedURLs) = pages_scanned

\* one page has been scanned and two jobs are in flight
C20_Witness ==
    /\ pages_scanned >= 1
    /\ Cardinality(DOMAIN future_to_url) = 2
    /\ pc = "for"

====
